---- MODULE Spec2Model ----
(***************************************************************************)
(* Register models of src/registers.rs: the flag sets Cr0, Cr3Flags, Cr4,  *)
(* Efer and RFlags, and the composite accessors of Cr3 and RFlags.         *)
(*                                                                         *)
(* A u64 is the set of the positions of its one bits (a subset of 0..63),  *)
(* so every operator below works on the full 64-bit width: & is            *)
(* intersection, | is union, ! is the complement in 0..63, and a shift     *)
(* moves the positions and drops those that leave 0..63.                   *)
(***************************************************************************)
EXTENDS Integers, FiniteSets, Sequences

VARIABLES ty, bits, op, cr4, arg, old, outcome, ret

vars == <<ty, bits, op, cr4, arg, old, outcome, ret>>

----------------------------------------------------------------------------
(* Bounds of the inputs the calls are given.                               *)

\* set_pcid is called with 0..PcidSpan, 4095-PcidSpan..4095+1+PcidSpan, 65535
PcidSpan == 2
\* set_pml4 is called with k << s for k in 0..AddrSpan and the shifts of AddrShifts
AddrSpan == 2
\* set_iopl is called with 0..LevelSpan and 255
LevelSpan == 5
\* from_bits / from_bits_truncate are called with k << s for k in 0..RawSpan
RawSpan == 3

----------------------------------------------------------------------------
(* u64 arithmetic                                                          *)

Bits64 == 0 .. 63

Zero == {}

U64_MAX == Bits64

\* the integer literal n (n < 2^31) as a u64
FromNat(n) == {i \in 0 .. 30 : (n \div (2 ^ i)) % 2 = 1}

BitAnd(a, b) == a \cap b

BitOr(a, b) == a \cup b

BitNot(a) == Bits64 \ a

\* a << n on u64: the bits shifted out at the top are lost
Shl(a, n) == {i + n : i \in a} \cap Bits64

\* a >> n on u64
Shr(a, n) == {i - n : i \in {j \in a : j >= n}}

Highest(s) == CHOOSE i \in s : \A j \in s : j <= i

\* a <= b on unsigned integers: equal, or the highest bit they differ in is b's
Le(a, b) == a = b \/ Highest((a \ b) \cup (b \ a)) \in b

\* x as u8, x as u16 (truncating casts); a widening cast keeps the set
AsU8(a) == a \cap (0 .. 7)

AsU16(a) == a \cap (0 .. 15)

----------------------------------------------------------------------------
(* The declared flags of each bitflags! type, as the shift of each 1 << n  *)

Cr0_flags == {0, 1, 2, 3, 4, 5, 16, 18, 29, 30, 31}

Cr3Flags_flags == {3, 4}

Cr4_flags == {0, 1, 2, 3, 4, 5, 6, 7, 8, 9, 10, 11, 12, 13, 14, 16, 17, 18, 20, 21, 22}

Efer_flags == {0, 8, 10, 11, 12, 13, 14, 15}

\* variant of RFlags_flags: the IOPL field declared as two flags
RFlags_flags_with_iopl == {21, 20, 19, 18, 17, 16, 14, 13, 12, 11, 10, 9, 8, 7, 6, 4, 2, 0}

RFlags_flags == {21, 20, 19, 18, 17, 16, 14, 11, 10, 9, 8, 7, 6, 4, 2, 0}

FlagTypes == {"Cr0", "Cr3Flags", "Cr4", "Efer", "RFlags"}

Types == FlagTypes \cup {"Cr3"}

Shifts(t) ==
    CASE t = "Cr0" -> Cr0_flags
      [] t = "Cr3Flags" -> Cr3Flags_flags
      [] t = "Cr4" -> Cr4_flags
      [] t = "Efer" -> Efer_flags
      [] t = "RFlags" -> RFlags_flags

\* T::all(): the union of the declared constants 1 << n
All(t) == UNION {Shl(FromNat(1), n) : n \in Shifts(t)}

Cr4_PCID == Shl(FromNat(1), 17)

Cr3Flags_PAGE_LEVEL_WRITETHROUGH == Shl(FromNat(1), 3)

Cr3Flags_PAGE_LEVEL_CACHE_DISABLE == Shl(FromNat(1), 4)

\* self.contains(other)
contains(self, other) == BitAnd(self, other) = other

\* T::from_bits_truncate(raw)
from_bits_truncate(t, raw) == BitAnd(raw, All(t))

\* T::from_bits(raw): Some(raw) as <<raw>>, None as <<>>
from_bits(t, raw) ==
    IF BitAnd(raw, BitNot(All(t))) = Zero THEN <<raw>> ELSE <<>>

----------------------------------------------------------------------------
(* Default values                                                          *)

Cr0_default == Zero

Cr3Flags_default == Zero

Cr3_default == Zero

Cr4_default == Zero

Efer_default == Zero

\* variant of RFlags_default: #[derive(Default)], as on the other types
RFlags_default_derived == Zero

RFlags_default == Shl(FromNat(1), 1)

Default(t) ==
    CASE t = "Cr0" -> Cr0_default
      [] t = "Cr3Flags" -> Cr3Flags_default
      [] t = "Cr3" -> Cr3_default
      [] t = "Cr4" -> Cr4_default
      [] t = "Efer" -> Efer_default
      [] t = "RFlags" -> RFlags_default

----------------------------------------------------------------------------
(* The result of a call: how it ended, the value of self after it, and     *)
(* what it returned (<<>> when it returned nothing).                        *)

\* a failed assert!: the call ends before it has written anything
Panic(self) == [outcome |-> "panic", self |-> self, ret |-> <<>>]

Return(self, r) == [outcome |-> "ok", self |-> self, ret |-> r]

----------------------------------------------------------------------------
(* impl Cr3                                                                *)

Cr3_MASK == FromNat(4095)

Cr3_flags(self, c) ==
    IF ~ ~contains(c, Cr4_PCID)
    THEN Panic(self)
    ELSE Return(self, <<from_bits_truncate("Cr3Flags", self)>>)

\* variant of Cr3_set_flags: the low field is not cleared before the write
Cr3_set_flags_keep_low(self, c, flags) ==
    IF ~ ~contains(c, Cr4_PCID)
    THEN Panic(self)
    ELSE Return(BitOr(self, BitAnd(flags, Cr3_MASK)), <<>>)

Cr3_set_flags(self, c, flags) ==
    IF ~ ~contains(c, Cr4_PCID)
    THEN Panic(self)
    ELSE Return(BitOr(BitAnd(self, BitNot(Cr3_MASK)), BitAnd(flags, Cr3_MASK)), <<>>)

\* variant of Cr3_pcid: the assertion on the Cr4 snapshot is missing
Cr3_pcid_unchecked(self, c) == Return(self, <<AsU16(BitAnd(self, Cr3_MASK))>>)

Cr3_pcid(self, c) ==
    IF ~contains(c, Cr4_PCID)
    THEN Panic(self)
    ELSE Return(self, <<AsU16(BitAnd(self, Cr3_MASK))>>)

\* variant of Cr3_set_pcid: the bound is asserted with < in place of <=
Cr3_set_pcid_lt(self, c, pcid) ==
    IF ~contains(c, Cr4_PCID) \/ ~(Le(pcid, Cr3_MASK) /\ pcid # Cr3_MASK)
    THEN Panic(self)
    ELSE Return(BitOr(BitAnd(self, BitNot(Cr3_MASK)), pcid), <<>>)

Cr3_set_pcid(self, c, pcid) ==
    IF ~contains(c, Cr4_PCID) \/ ~Le(pcid, Cr3_MASK)
    THEN Panic(self)
    ELSE Return(BitOr(BitAnd(self, BitNot(Cr3_MASK)), pcid), <<>>)

Cr3_pml4(self) == Return(self, <<Shl(self, 12)>>)

\* variant of Cr3_set_pml4: the bound is asserted with < in place of <=
Cr3_set_pml4_lt(self, pml4) ==
    IF ~(Le(pml4, Shr(U64_MAX, 12)) /\ pml4 # Shr(U64_MAX, 12))
    THEN Panic(self)
    ELSE Return(BitOr(BitAnd(self, Cr3_MASK), Shl(pml4, 12)), <<>>)

\* variant of Cr3_set_pml4: the mask is inverted, so the low field is cleared
\* and the old base kept
Cr3_set_pml4_clobber(self, pml4) ==
    IF ~Le(pml4, Shr(U64_MAX, 12))
    THEN Panic(self)
    ELSE Return(BitOr(BitAnd(self, BitNot(Cr3_MASK)), Shl(pml4, 12)), <<>>)

Cr3_set_pml4(self, pml4) ==
    IF ~Le(pml4, Shr(U64_MAX, 12))
    THEN Panic(self)
    ELSE Return(BitOr(BitAnd(self, Cr3_MASK), Shl(pml4, 12)), <<>>)

----------------------------------------------------------------------------
(* impl RFlags                                                             *)

RFlags_iopl(self) == Return(self, <<BitAnd(AsU8(Shr(self, 12)), FromNat(3))>>)

\* variant of RFlags_set_iopl: bits 12-13 are not cleared before the write
RFlags_set_iopl_no_clear(self, level) ==
    IF ~Le(level, FromNat(3))
    THEN Panic(self)
    ELSE Return(BitOr(self, Shl(level, 12)), <<>>)

RFlags_set_iopl(self, level) ==
    IF ~Le(level, FromNat(3))
    THEN Panic(self)
    ELSE Return(BitOr(BitAnd(self, BitNot(Shl(FromNat(3), 12))), Shl(level, 12)), <<>>)

----------------------------------------------------------------------------
(* Inputs                                                                  *)

\* Cr4 snapshots: with and without PCID, alone and among all other flags
Cr4Inputs ==
    {Cr4_default, Cr4_PCID, All("Cr4") \ Cr4_PCID, All("Cr4")}

\* every valid Cr3Flags value
Cr3FlagsInputs == SUBSET All("Cr3Flags")

\* u16 values at both ends of 0..=4095, past it, and u16::MAX
PcidInputs ==
    {FromNat(k) : k \in 0 .. PcidSpan}
        \cup {FromNat(4095 - k) : k \in 0 .. PcidSpan}
        \cup {FromNat(4096 + k) : k \in 0 .. PcidSpan}
        \cup {FromNat(65535)}

AddrShifts == {0, 12, 51}

\* u64 values: small ones, page-aligned ones, ones at the 52-bit width, the
\* largest accepted ones and u64::MAX
AddrInputs ==
    {Shl(FromNat(k), s) : k \in 0 .. AddrSpan, s \in AddrShifts}
        \cup {Shr(U64_MAX, 12), BitAnd(Shr(U64_MAX, 12), BitNot(Cr3_MASK)), U64_MAX}

\* u8 values
LevelInputs == {FromNat(k) : k \in 0 .. LevelSpan} \cup {FromNat(255)}

RawShifts == {0, 12, 20}

\* raw u64 values handed to the constructors of the flag sets
RawInputs ==
    {Shl(FromNat(k), s) : k \in 0 .. RawSpan, s \in RawShifts} \cup {U64_MAX}

----------------------------------------------------------------------------
(* The state: one register value `bits` of type `ty`, the last call made   *)
(* (`op`, with the Cr4 snapshot `cr4` and the argument `arg` it was given), *)
(* the value before that call (`old`), how the call ended (`outcome`) and  *)
(* what it returned (`ret`).  A panic is fatal: nothing runs after it.     *)

Running == outcome # "panic"

Apply(o, c, a, res) ==
    /\ op' = o
    /\ cr4' = c
    /\ arg' = a
    /\ old' = bits
    /\ bits' = res.self
    /\ outcome' = res.outcome
    /\ ret' = res.ret
    /\ ty' = ty

Init ==
    /\ ty \in Types
    /\ bits = Default(ty)
    /\ op = "default"
    /\ cr4 = Zero
    /\ arg = Zero
    /\ old = Default(ty)
    /\ outcome = "ok"
    /\ ret = <<>>

\* let r = T::default()
DefaultCall ==
    /\ Running
    /\ \E t \in Types :
        /\ ty' = t
        /\ bits' = Default(t)
        /\ op' = "default"
        /\ cr4' = Zero
        /\ arg' = Zero
        /\ old' = bits
        /\ outcome' = "ok"
        /\ ret' = <<>>

\* if let Some(v) = T::from_bits(raw) { r = v }
FromBitsCall ==
    /\ Running
    /\ ty \in FlagTypes
    /\ \E raw \in RawInputs \cup {bits} :
        LET res == from_bits(ty, raw) IN
        IF res = <<>>
        THEN Apply("from_bits", Zero, raw, [outcome |-> "none", self |-> bits, ret |-> <<>>])
        ELSE Apply("from_bits", Zero, raw, Return(res[1], <<>>))

\* r = T::from_bits_truncate(raw)
FromBitsTruncateCall ==
    /\ Running
    /\ ty \in FlagTypes
    /\ \E raw \in RawInputs \cup {bits} :
        Apply("from_bits_truncate", Zero, raw, Return(from_bits_truncate(ty, raw), <<>>))

\* r.bits()
BitsCall ==
    /\ Running
    /\ ty \in FlagTypes
    /\ Apply("bits", Zero, Zero, Return(bits, <<bits>>))

FlagsCall ==
    /\ Running
    /\ ty = "Cr3"
    /\ \E c \in Cr4Inputs : Apply("flags", c, Zero, Cr3_flags(bits, c))

SetFlagsCall ==
    /\ Running
    /\ ty = "Cr3"
    /\ \E c \in Cr4Inputs, f \in Cr3FlagsInputs :
        Apply("set_flags", c, f, Cr3_set_flags(bits, c, f))

PcidCall ==
    /\ Running
    /\ ty = "Cr3"
    /\ \E c \in Cr4Inputs : Apply("pcid", c, Zero, Cr3_pcid(bits, c))

SetPcidCall ==
    /\ Running
    /\ ty = "Cr3"
    /\ \E c \in Cr4Inputs, p \in PcidInputs :
        Apply("set_pcid", c, p, Cr3_set_pcid(bits, c, p))

Pml4Call ==
    /\ Running
    /\ ty = "Cr3"
    /\ Apply("pml4", Zero, Zero, Cr3_pml4(bits))

SetPml4Call ==
    /\ Running
    /\ ty = "Cr3"
    /\ \E a \in AddrInputs : Apply("set_pml4", Zero, a, Cr3_set_pml4(bits, a))

IoplCall ==
    /\ Running
    /\ ty = "RFlags"
    /\ Apply("iopl", Zero, Zero, RFlags_iopl(bits))

SetIoplCall ==
    /\ Running
    /\ ty = "RFlags"
    /\ \E l \in LevelInputs : Apply("set_iopl", Zero, l, RFlags_set_iopl(bits, l))

Next ==
    \/ DefaultCall
    \/ FromBitsCall
    \/ FromBitsTruncateCall
    \/ BitsCall
    \/ FlagsCall
    \/ SetFlagsCall
    \/ PcidCall
    \/ SetPcidCall
    \/ Pml4Call
    \/ SetPml4Call
    \/ IoplCall
    \/ SetIoplCall

Spec == Init /\ [][Next]_vars

TypeOK ==
    /\ ty \in Types
    /\ bits \subseteq Bits64
    /\ cr4 \subseteq Bits64
    /\ arg \subseteq Bits64
    /\ old \subseteq Bits64
    /\ outcome \in {"ok", "panic", "none"}
    /\ Len(ret) <= 1

----------------------------------------------------------------------------
(* Properties                                                              *)

\* no bit of the low 12 is set: the address is page-aligned
PageAligned(a) == a \cap (0 .. 11) = {}

\* no bit above the physical-address width (bits 52-63) is set
WithinWidth(a) == a \cap (52 .. 63) = {}

\* the value is at most 4095: no bit from 12 up is set
FitsPcid(a) == a \subseteq 0 .. 11

\* the value is at most 3: no bit from 2 up is set
FitsIopl(a) == a \subseteq 0 .. 1

LowField(a) == a \cap (0 .. 11)

IoplField == {12, 13}

\* C1: after set_pml4(a) was accepted for a page-aligned a with bits 52-63
\* clear, pml4() returns exactly a
C1_BaseRoundTrip ==
    (op = "set_pml4" /\ PageAligned(arg) /\ WithinWidth(arg))
        => /\ outcome = "ok"
           /\ Cr3_pml4(bits) = Return(bits, <<arg>>)

\* C2: flags() and set_flags() under a Cr4 with PCID, and pcid() and set_pcid()
\* under a Cr4 without PCID, panic, return nothing and leave the Cr3 value as
\* it was; flags(), set_flags() and pcid() panic in no other case, whatever
\* calls came before
C2_ModeGating ==
    /\ (\/ op \in {"flags", "set_flags"} /\ Cr4_PCID \subseteq cr4
        \/ op \in {"pcid", "set_pcid"} /\ ~(Cr4_PCID \subseteq cr4))
            => /\ outcome = "panic"
               /\ ret = <<>>
               /\ bits = old
    /\ (/\ \/ op \in {"flags", "set_flags"} /\ ~(Cr4_PCID \subseteq cr4)
           \/ op = "pcid" /\ Cr4_PCID \subseteq cr4)
            => outcome = "ok"

\* C2 witness: set_flags panicked under a Cr4 with PCID on a Cr3 value that
\* holds a PCID and a base, leaving it as it was
C2_Witness ==
    /\ op = "set_flags"
    /\ Cr4_PCID \subseteq cr4
    /\ outcome = "panic"
    /\ LowField(bits) = FromNat(4095)
    /\ Shr(bits, 12) # Zero
    /\ arg # Zero

\* C3: under a Cr4 with PCID, set_pcid(p) succeeds for every p <= 4095 and a
\* following pcid() returns p; for every p >= 4096 it panics and writes nothing
C3_PcidWriteRead ==
    (op = "set_pcid" /\ Cr4_PCID \subseteq cr4)
        => IF FitsPcid(arg)
           THEN /\ outcome = "ok"
                /\ Cr3_pcid(bits, cr4) = Return(bits, <<arg>>)
           ELSE /\ outcome = "panic"
                /\ bits = old

\* C3 witness: set_pcid(4095) succeeded over another PCID and a base
C3_Witness ==
    /\ op = "set_pcid"
    /\ outcome = "ok"
    /\ arg = FromNat(4095)
    /\ LowField(old) = FromNat(1)
    /\ Shr(old, 12) # Zero
    /\ Cr3_pcid(bits, cr4).ret = <<FromNat(4095)>>

\* C4: under a Cr4 without PCID, set_flags(f) succeeds for every valid f, a
\* following flags() returns f, and of the low 12 bits only those of f are set
C4_FlagsWriteRead ==
    (op = "set_flags" /\ ~(Cr4_PCID \subseteq cr4))
        => /\ outcome = "ok"
           /\ Cr3_flags(bits, cr4) = Return(bits, <<arg>>)
           /\ LowField(bits) = arg
           /\ bits \cap (0 .. 2) = {}

\* C4 witness: set_flags wrote one flag over a PCID of 4095 written earlier
C4_Witness ==
    /\ op = "set_flags"
    /\ outcome = "ok"
    /\ LowField(old) = FromNat(4095)
    /\ arg = Cr3Flags_PAGE_LEVEL_WRITETHROUGH
    /\ LowField(bits) = {3}

\* C5: set_iopl(level) succeeds for level <= 3, a following iopl() returns
\* level and only bits 12-13 may differ from before; it panics for level > 3
\* and writes nothing; iopl() returns a value in 0..=3 for every RFlags value
C5_IoplWriteRead ==
    /\ op = "set_iopl"
        => IF FitsIopl(arg)
           THEN /\ outcome = "ok"
                /\ RFlags_iopl(bits) = Return(bits, <<arg>>)
                /\ bits \ IoplField = old \ IoplField
           ELSE /\ outcome = "panic"
                /\ bits = old
    /\ ty = "RFlags" => FitsIopl(RFlags_iopl(bits).ret[1])
    /\ op = "iopl" => outcome = "ok" /\ FitsIopl(ret[1]) /\ bits = old

\* C5 witness: set_iopl(2) succeeded on a value with IOPL 1 and other bits set
C5_Witness ==
    /\ op = "set_iopl"
    /\ outcome = "ok"
    /\ arg = FromNat(2)
    /\ RFlags_iopl(old).ret = <<FromNat(1)>>
    /\ old \ IoplField # {}
    /\ RFlags_iopl(bits).ret = <<FromNat(2)>>

\* C6 as stated: set_pml4 panics, writing nothing, for every unaligned and for
\* every oversized address, and succeeds for every page-aligned address within
\* the width
C6_Original ==
    op = "set_pml4"
        => IF PageAligned(arg) /\ WithinWidth(arg)
           THEN outcome = "ok"
           ELSE outcome = "panic" /\ bits = old

\* C6 as amended: set_pml4 panics, writing nothing, exactly for the arguments
\* with a bit above the width (bits 52-63) set; it succeeds for every argument
\* within the width, page-aligned or not
C6_WidthOnly ==
    op = "set_pml4"
        => IF WithinWidth(arg)
           THEN outcome = "ok"
           ELSE outcome = "panic" /\ bits = old /\ ret = <<>>

\* C6 witness: set_pml4 accepted an unaligned argument within the width
C6_Witness ==
    /\ op = "set_pml4"
    /\ outcome = "ok"
    /\ ~PageAligned(arg)
    /\ WithinWidth(arg)
    /\ bits # old

\* the getters of the low field return the same before and after the call
SameLowGetters ==
    \A c \in Cr4Inputs :
        /\ Cr3_pcid(bits, c).outcome = Cr3_pcid(old, c).outcome
        /\ Cr3_pcid(bits, c).ret = Cr3_pcid(old, c).ret
        /\ Cr3_flags(bits, c).outcome = Cr3_flags(old, c).outcome
        /\ Cr3_flags(bits, c).ret = Cr3_flags(old, c).ret

C8_Defaults ==
    op = "default"
        => /\ outcome = "ok"
           /\ bits = (IF ty = "RFlags" THEN FromNat(2) ELSE Zero)

\* C8 witness: RFlags::default() was built in place of another, non-zero value
C8_Witness ==
    /\ op = "default"
    /\ ty = "RFlags"
    /\ bits = {1}
    /\ old # {1}
    /\ old # Zero

\* C9: pml4() returns bits 12-63 shifted left by 12, and a successful set_pcid
\* or set_flags leaves what pml4() returns unchanged
C9_BaseIgnoresLowField ==
    /\ op = "pml4" => ret = <<Shl(Shr(old, 12), 12)>>
    /\ (op \in {"set_pcid", "set_flags"} /\ outcome = "ok")
        => Cr3_pml4(bits).ret = Cr3_pml4(old).ret

\* the value was built by RFlags::default() or by set_iopl(1..=3)
C10_Case ==
    /\ ty = "RFlags"
    /\ \/ op = "default"
       \/ op = "set_iopl" /\ outcome = "ok" /\ arg \in {FromNat(1), FromNat(2), FromNat(3)}

\* C10: for r = RFlags::default() and for r left by set_iopl(1..=3),
\* from_bits(r.bits()) fails and from_bits_truncate(r.bits()) has bit 1 clear
\* and iopl() == 0; and so do the calls: from_bits on the bits of a value with
\* bit 1 or an IOPL set returns None, from_bits_truncate leaves neither
C10_RawRoundTripLosesIopl ==
    /\ C10_Case
        => /\ from_bits("RFlags", bits) = <<>>
           /\ 1 \notin from_bits_truncate("RFlags", bits)
           /\ RFlags_iopl(from_bits_truncate("RFlags", bits)).ret = <<Zero>>
    /\ (/\ op = "from_bits"
        /\ ty = "RFlags"
        /\ arg = old
        /\ (1 \in old \/ old \cap IoplField # {}))
            => outcome = "none"
    /\ (op = "from_bits_truncate" /\ ty = "RFlags")
        => /\ 1 \notin bits
           /\ RFlags_iopl(bits).ret = <<Zero>>

\* C10 witness: from_bits returned None for the bits of a value with IOPL 3
C10_Witness ==
    /\ op = "from_bits"
    /\ ty = "RFlags"
    /\ arg = old
    /\ outcome = "none"
    /\ RFlags_iopl(old).ret = <<FromNat(3)>>

====
